---- MODULE Spec2Model ----
(***************************************************************************)
(* RedisGraph delta matrix (src/graph/rg_matrix/rg_matrix.c).              *)
(*                                                                         *)
(* An RG_Matrix wraps three GraphBLAS matrices: the base matrix M, the     *)
(* pending additions delta-plus (DP) and the pending deletions delta-minus *)
(* (DM), with a dirty flag, a multi-edge flag, a mutex and an optional     *)
(* transposed sibling.  The heap maps the address of every allocated       *)
(* RG_Matrix to its fields; C->transposed is an address.                   *)
(*                                                                         *)
(* rg_matrix.c holds the accessors, the lock, nvals and extractElement.    *)
(* Creation, SetElement, RemoveElement and Sync live in other files; they  *)
(* follow the design description: SetElement always writes DP (M is        *)
(* written by Sync only), the multiplicity of a coordinate is a counter    *)
(* kept beside its value, and every mutation is mirrored onto the          *)
(* transposed sibling inside the same call.                                *)
(***************************************************************************)
EXTENDS Integers, FiniteSets, Sequences, TLC

\* ------------------------------------------------------------------ bounds
NRows == 1            \* rows of the matrix created in Init
NCols == 2            \* columns of the matrix created in Init
MaxVal == 2           \* scalars are 1..MaxVal
MaxOps == 4           \* number of API calls in one run
MaxCalls == 3         \* number of API calls in one run of the whole API
MaxDepth == 3         \* nested calls followed when a mirrored call is traced
MaxKey == 2           \* join values are the integers 1..MaxKey, and NULL
MaxCache == 3         \* most records a searched cache holds
MaxLeft == 2          \* most records the left child of a join yields
MaxRight == 2         \* most records the right child of a join yields
MaxJoinCalls == 3     \* number of calls made on one join operator
WRows == 2            \* rows of the matrix threads share; most rows of a Resize
WCols == 2            \* columns of that matrix; most columns of a Resize
SizeA == 1            \* number of coordinates writer 1 inserts
SizeB == 2            \* number of coordinates writer 2 inserts
IndexWidth == 16      \* bits of a GrB_Index in the model (uint64_t in the
                      \* code; TLC's integers have 32 bits)

Values == 1..MaxVal

\* ------------------------------------------------------- GraphBLAS engine
GrB_SUCCESS == "GrB_SUCCESS"
GrB_NO_VALUE == "GrB_NO_VALUE"
GrB_INVALID_INDEX == "GrB_INVALID_INDEX"

\* x of a call that stored nothing in *x
NoX == "unset"

EmptyEnt == [c \in {} |-> 0]

\* create(rows, cols): an empty sparse matrix; ent maps the stored
\* coordinates <<i, j>> to their values
GrB_BOOL == "GrB_BOOL"
GrB_UINT64 == "GrB_UINT64"

GrB_Matrix_new(type, nrows, ncols) ==
    [type |-> type, nrows |-> nrows, ncols |-> ncols, ent |-> EmptyEnt]

\* countEntries()
GrB_Matrix_nvals(A) == Cardinality(DOMAIN A.ent)

InRange(A, i, j) == i < A.nrows /\ j < A.ncols

\* typecast of a stored scalar of type from to the C type of *x
GB_cast(from, to, x) ==
    IF from = to THEN x
    ELSE IF to = GrB_BOOL THEN x # 0
    ELSE IF x THEN 1 ELSE 0

\* extractElement(i, j) -> Optional<Value>, x typecast to xtype
GrB_Matrix_extractElement(xtype, A, i, j) ==
    IF ~InRange(A, i, j)
    THEN [info |-> GrB_INVALID_INDEX, x |-> NoX]
    ELSE IF <<i, j>> \in DOMAIN A.ent
         THEN [info |-> GrB_SUCCESS, x |-> GB_cast(A.type, xtype, A.ent[<<i, j>>])]
         ELSE [info |-> GrB_NO_VALUE, x |-> NoX]

\* assign(i, j, value); an out-of-range index stores nothing
GrB_Matrix_setElement(A, x, i, j) ==
    IF ~InRange(A, i, j) THEN A
    ELSE [A EXCEPT !.ent = [c \in (DOMAIN A.ent) \cup {<<i, j>>} |->
                               IF c = <<i, j>> THEN x ELSE A.ent[c]]]

\* remove(i, j)
GrB_Matrix_removeElement(A, i, j) ==
    [A EXCEPT !.ent = [c \in (DOMAIN A.ent) \ {<<i, j>>} |-> A.ent[c]]]

\* elementWiseUnion(A, B); where both hold a coordinate B's value is kept
GrB_eWiseUnion(A, B) ==
    [A EXCEPT !.ent = [c \in (DOMAIN A.ent) \cup (DOMAIN B.ent) |->
                          IF c \in DOMAIN B.ent THEN B.ent[c] ELSE A.ent[c]]]

\* maskedExclude(A, maskB)
GrB_maskedExclude(A, B) ==
    [A EXCEPT !.ent = [c \in (DOMAIN A.ent) \ (DOMAIN B.ent) |-> A.ent[c]]]

\* ------------------------------------------------------------- RG_Matrix
PRIMARY == "C"        \* address of the matrix the callers hold
MIRROR == "T"         \* address of its transposed sibling
NULL == "NULL"
UNLOCKED == "unlocked"  \* a mutex no thread holds; else the holder's id

RG_MATRIX_MATRIX(C) == C.matrix
RG_MATRIX_DELTA_PLUS(C) == C.delta_plus
RG_MATRIX_DELTA_MINUS(C) == C.delta_minus

\* Create(rows, cols, valueType, maintainTranspose): the heap after creation
RG_Matrix_new(nrows, ncols, maintain_transpose) ==
    LET obj(r, c, mt) ==
            [dirty |-> FALSE,
             multi_edge |-> FALSE,
             maintain_transpose |-> mt,
             transposed |-> IF mt THEN MIRROR ELSE NULL,
             matrix |-> GrB_Matrix_new(GrB_UINT64, r, c),
             delta_plus |-> GrB_Matrix_new(GrB_UINT64, r, c),
             delta_minus |-> GrB_Matrix_new(GrB_BOOL, r, c),
             mult |-> EmptyEnt,
             mutex |-> UNLOCKED]
    IN  IF maintain_transpose
        THEN [a \in {PRIMARY, MIRROR} |->
                 IF a = PRIMARY THEN obj(nrows, ncols, TRUE)
                                ELSE obj(ncols, nrows, FALSE)]
        ELSE [a \in {PRIMARY} |-> obj(nrows, ncols, FALSE)]

\* mutant: leaves the flag as it is
Mut_setDirty_Skip(h, a) == h

RG_Matrix_setDirty(h, a) == [h EXCEPT ![a].dirty = TRUE]

\* mutant: hands back the matrix itself
Mut_getTranspose_Self(h, a) == a

RG_Matrix_getTranspose(h, a) == h[a].transposed

RG_Matrix_getGrB_Matrix(h, a) == RG_MATRIX_MATRIX(h[a])

\* mutant: returns the base matrix, as RG_Matrix_getGrB_Matrix does
Mut_getDeltaPlus_Base(h, a) == RG_MATRIX_MATRIX(h[a])

RG_Matrix_getDeltaPlus(h, a) == RG_MATRIX_DELTA_PLUS(h[a])

RG_Matrix_isDirty(h, a) == h[a].dirty

\* mutant: takes the mutex without waiting for it to be free
Mut_Lock_NoWait(h, h2, a, t) == h2 = [h EXCEPT ![a].mutex = t]

\* locks the matrix: thread t blocks until C->mutex is free, then holds
\* it; h2 is the heap after the call
RG_Matrix_Lock(h, h2, a, t) ==
    /\ h[a].mutex = UNLOCKED
    /\ h2 = [h EXCEPT ![a].mutex = t]

\* mutant: returns with the mutex as it was
Mut_Unlock_Skip(h, a) == h

\* unlocks the matrix
RG_Matrix_Unlock(h, a) == [h EXCEPT ![a].mutex = UNLOCKED]

RECURSIVE RG_Matrix_setMultiEdge(_, _, _)

\* mutant: writes the flag into maintain_transpose
Mut_setMultiEdge_WrongField(h, a, multi_edge) ==
    LET h1 == IF h[a].maintain_transpose
              THEN RG_Matrix_setMultiEdge(h, h[a].transposed, multi_edge)
              ELSE h
    IN  [h1 EXCEPT ![a].maintain_transpose = multi_edge]

\* mutant: sets the flag on C only
Mut_setMultiEdge_NoMirror(h, a, multi_edge) ==
    [h EXCEPT ![a].multi_edge = multi_edge]

RG_Matrix_setMultiEdge(h, a, multi_edge) ==
    LET h1 == IF h[a].maintain_transpose
              THEN RG_Matrix_setMultiEdge(h, h[a].transposed, multi_edge)
              ELSE h
    IN  [h1 EXCEPT ![a].multi_edge = multi_edge]

RG_Matrix_getMultiEdge(h, a) == h[a].multi_edge

\* mutant: subtracts the pending additions as well
Mut_nvals_MinusPlus(h, a) ==
    LET m_nvals == GrB_Matrix_nvals(RG_MATRIX_MATRIX(h[a]))
        dp_nvals == GrB_Matrix_nvals(RG_MATRIX_DELTA_PLUS(h[a]))
        dm_nvals == GrB_Matrix_nvals(RG_MATRIX_DELTA_MINUS(h[a]))
    IN  (m_nvals - dp_nvals - dm_nvals) % (2 ^ IndexWidth)

\* nvals = nvals(M) + nvals(DP) - nvals(DM), in GrB_Index (uint64_t)
RG_Matrix_nvals(h, a) ==
    LET m == RG_MATRIX_MATRIX(h[a])
        dp == RG_MATRIX_DELTA_PLUS(h[a])
        dm == RG_MATRIX_DELTA_MINUS(h[a])
        m_nvals == GrB_Matrix_nvals(m)
        dp_nvals == GrB_Matrix_nvals(dp)
        dm_nvals == GrB_Matrix_nvals(dm)
    IN  (m_nvals + dp_nvals - dm_nvals) % (2 ^ IndexWidth)

\* x = A(i,j)
RG_Matrix_extractElement_BOOL(h, a, i, j) ==
    LET A == h[a]
        m == RG_MATRIX_MATRIX(A)
        dp == RG_MATRIX_DELTA_PLUS(A)
        dm == RG_MATRIX_DELTA_MINUS(A)
        \* if 'delta-plus' exists return dp[i,j]
        info1 == GrB_Matrix_extractElement(GrB_BOOL, dp, i, j)
        \* if dm[i,j] doesn't exists, return M[i,j]
        info2 == GrB_Matrix_extractElement(GrB_BOOL, dm, i, j)
        info3 == GrB_Matrix_extractElement(GrB_BOOL, m, i, j)
    IN  IF info1.info = GrB_SUCCESS THEN info1
        ELSE IF info2.info # GrB_SUCCESS THEN info3
        ELSE info2

\* mutant: reports every lookup that found nothing as GrB_NO_VALUE
Mut_extractElement_NoValue(h, a, i, j) ==
    LET C == h[a]
        info1 == GrB_Matrix_extractElement(GrB_UINT64, RG_MATRIX_DELTA_PLUS(C), i, j)
        info2 == GrB_Matrix_extractElement(GrB_UINT64, RG_MATRIX_DELTA_MINUS(C), i, j)
        info3 == GrB_Matrix_extractElement(GrB_UINT64, RG_MATRIX_MATRIX(C), i, j)
    IN  IF info1.info = GrB_SUCCESS THEN info1
        ELSE IF info2.info # GrB_SUCCESS
             THEN IF info3.info = GrB_SUCCESS THEN info3
                  ELSE [info |-> GrB_NO_VALUE, x |-> NoX]
             ELSE info2

\* mutant: looks in M before the deltas
Mut_extractElement_BaseFirst(h, a, i, j) ==
    LET A == h[a]
        m == RG_MATRIX_MATRIX(A)
        dp == RG_MATRIX_DELTA_PLUS(A)
        dm == RG_MATRIX_DELTA_MINUS(A)
        info1 == GrB_Matrix_extractElement(GrB_UINT64, dp, i, j)
        info2 == GrB_Matrix_extractElement(GrB_UINT64, dm, i, j)
        info3 == GrB_Matrix_extractElement(GrB_UINT64, m, i, j)
    IN  IF info3.info = GrB_SUCCESS /\ info2.info # GrB_SUCCESS THEN info3
        ELSE IF info1.info = GrB_SUCCESS THEN info1
        ELSE IF info2.info # GrB_SUCCESS THEN info3
        ELSE info2

\* x = A(i,j)
RG_Matrix_extractElement_UINT64(h, a, i, j) ==
    LET A == h[a]
        m == RG_MATRIX_MATRIX(A)
        dp == RG_MATRIX_DELTA_PLUS(A)
        dm == RG_MATRIX_DELTA_MINUS(A)
        \* if 'delta-plus' exists return dp[i,j]
        info1 == GrB_Matrix_extractElement(GrB_UINT64, dp, i, j)
        \* if dm[i,j] doesn't exists, return M[i,j]
        info2 == GrB_Matrix_extractElement(GrB_UINT64, dm, i, j)
        info3 == GrB_Matrix_extractElement(GrB_UINT64, m, i, j)
    IN  IF info1.info = GrB_SUCCESS THEN info1
        ELSE IF info2.info # GrB_SUCCESS THEN info3
        ELSE info2

\* SetElement(i, j, value): cancels a pending delete, then writes DP;
\* mirrored onto the transposed sibling with row and column swapped
RECURSIVE RG_Matrix_setElement(_, _, _, _, _)

\* mutant: leaves a pending delete in place
Mut_setElement_KeepDM(h, a, x, i, j) ==
    LET h1 == IF h[a].maintain_transpose
              THEN RG_Matrix_setElement(h, h[a].transposed, x, j, i)
              ELSE h
        C == h1[a]
        dp == RG_MATRIX_DELTA_PLUS(C)
        C1 == [C EXCEPT
                 !.delta_plus = GrB_Matrix_setElement(dp, x, i, j),
                 !.mult = [c \in (DOMAIN C.mult) \cup {<<i, j>>} |->
                              IF c = <<i, j>> THEN 1 ELSE C.mult[c]]]
    IN  RG_Matrix_setDirty([h1 EXCEPT ![a] = C1], a)

RG_Matrix_setElement(h, a, x, i, j) ==
    LET h1 == IF h[a].maintain_transpose
              THEN RG_Matrix_setElement(h, h[a].transposed, x, j, i)
              ELSE h
        C == h1[a]
        dp == RG_MATRIX_DELTA_PLUS(C)
        dm == RG_MATRIX_DELTA_MINUS(C)
        in_dm == GrB_Matrix_extractElement(GrB_BOOL, dm, i, j).info = GrB_SUCCESS
        in_dp == GrB_Matrix_extractElement(GrB_UINT64, dp, i, j).info = GrB_SUCCESS
        \* overwrite, or accumulate per the multi-edge flag
        n == IF (in_dm \/ in_dp) /\ C.multi_edge /\ <<i, j>> \in DOMAIN C.mult
             THEN C.mult[<<i, j>>] + 1
             ELSE 1
        C1 == [C EXCEPT
                 !.delta_minus = IF in_dm THEN GrB_Matrix_removeElement(dm, i, j)
                                          ELSE dm,
                 !.delta_plus = GrB_Matrix_setElement(dp, x, i, j),
                 !.mult = [c \in (DOMAIN C.mult) \cup {<<i, j>>} |->
                              IF c = <<i, j>> THEN n ELSE C.mult[c]]]
    IN  RG_Matrix_setDirty([h1 EXCEPT ![a] = C1], a)

\* RemoveElement(i, j): drops a pending insert, else records the deletion
\* of an entry of M in DM; mirrored onto the transposed sibling
RECURSIVE RG_Matrix_removeElement(_, _, _, _)

\* mutant: records a deletion in DM also when the coordinate was in DP
Mut_removeElement_Both(h, a, i, j) ==
    LET h1 == IF h[a].maintain_transpose
              THEN RG_Matrix_removeElement(h, h[a].transposed, j, i)
              ELSE h
        C == h1[a]
        dp == RG_MATRIX_DELTA_PLUS(C)
        dm == RG_MATRIX_DELTA_MINUS(C)
        in_dp == GrB_Matrix_extractElement(GrB_UINT64, dp, i, j).info = GrB_SUCCESS
        C1 == IF in_dp
              THEN [C EXCEPT
                      !.delta_plus = GrB_Matrix_removeElement(dp, i, j),
                      !.delta_minus = GrB_Matrix_setElement(dm, TRUE, i, j)]
              ELSE C
    IN  RG_Matrix_setDirty([h1 EXCEPT ![a] = C1], a)

\* mutant: records the deletion without looking at M
Mut_removeElement_Blind(h, a, i, j) ==
    LET h1 == IF h[a].maintain_transpose
              THEN RG_Matrix_removeElement(h, h[a].transposed, j, i)
              ELSE h
        C == h1[a]
        dp == RG_MATRIX_DELTA_PLUS(C)
        dm == RG_MATRIX_DELTA_MINUS(C)
        in_dp == GrB_Matrix_extractElement(GrB_UINT64, dp, i, j).info = GrB_SUCCESS
        C1 == IF in_dp
              THEN [C EXCEPT !.delta_plus = GrB_Matrix_removeElement(dp, i, j)]
              ELSE [C EXCEPT !.delta_minus = GrB_Matrix_setElement(dm, TRUE, i, j)]
    IN  RG_Matrix_setDirty([h1 EXCEPT ![a] = C1], a)

RG_Matrix_removeElement(h, a, i, j) ==
    LET h1 == IF h[a].maintain_transpose
              THEN RG_Matrix_removeElement(h, h[a].transposed, j, i)
              ELSE h
        C == h1[a]
        m == RG_MATRIX_MATRIX(C)
        dp == RG_MATRIX_DELTA_PLUS(C)
        dm == RG_MATRIX_DELTA_MINUS(C)
        in_dp == GrB_Matrix_extractElement(GrB_UINT64, dp, i, j).info = GrB_SUCCESS
        in_dm == GrB_Matrix_extractElement(GrB_BOOL, dm, i, j).info = GrB_SUCCESS
        in_m == GrB_Matrix_extractElement(GrB_UINT64, m, i, j).info = GrB_SUCCESS
        C1 == IF in_dp
              THEN [C EXCEPT
                      !.delta_plus = GrB_Matrix_removeElement(dp, i, j),
                      !.mult = [c \in (DOMAIN C.mult) \
                                        (IF in_m THEN {} ELSE {<<i, j>>}) |->
                                   C.mult[c]]]
              ELSE IF in_m /\ ~in_dm
              THEN [C EXCEPT !.delta_minus = GrB_Matrix_setElement(dm, TRUE, i, j)]
              ELSE C
    IN  RG_Matrix_setDirty([h1 EXCEPT ![a] = C1], a)

\* Sync(): M := (M with DP unioned in) with the DM coordinates excluded,
\* DP and DM replaced by empty matrices, dirty cleared; the transposed
\* sibling is synchronized in the same call
RECURSIVE RG_Matrix_sync(_, _)
RG_Matrix_sync(h, a) ==
    LET h1 == IF h[a].maintain_transpose
              THEN RG_Matrix_sync(h, h[a].transposed)
              ELSE h
        C == h1[a]
        m == RG_MATRIX_MATRIX(C)
        dp == RG_MATRIX_DELTA_PLUS(C)
        dm == RG_MATRIX_DELTA_MINUS(C)
        m_new == GrB_maskedExclude(GrB_eWiseUnion(m, dp), dm)
    IN  [h1 EXCEPT ![a] =
            [C EXCEPT
               !.matrix = m_new,
               !.delta_plus = GrB_Matrix_new(dp.type, dp.nrows, dp.ncols),
               !.delta_minus = GrB_Matrix_new(dm.type, dm.nrows, dm.ncols),
               !.mult = [c \in DOMAIN m_new.ent |->
                            IF c \in DOMAIN C.mult THEN C.mult[c] ELSE 1],
               !.dirty = FALSE]]

\* --------------------------------------------------------------- state
VARIABLES
    heap,     \* address -> fields of the RG_Matrix allocated there
    last,     \* the API call that completed last: its arguments, and in
              \* pre what it found (the state of its coordinate, or for
              \* Sync whether deltas were pending) or what it returned
              \* (the info of a read, sub-assignment or Resize, the
              \* handle of GetTranspose)
    nops,     \* number of API calls made so far
    pc,       \* writer thread -> its position
    todo,     \* writer thread -> the coordinates it has still to insert
    snap,     \* writer thread -> what its running SetElement has read
    written,  \* coordinate -> the value a writer has inserted there
    op,       \* the fields of the OpValueHashJoin
    children, \* child of the join -> the records it yields and how many
              \* of them it has yielded
    trace     \* what the join has done: the records it has emitted, how
              \* often each record has been deleted, and the events of
              \* its last call

join == <<op, children, trace>>
vars == <<heap, last, nops, pc, todo, snap, written, op, children, trace>>
writers == <<pc, todo, snap, written, join>>

Threads == {"writer1", "writer2"}

\* no join operator has been created
NoJoin ==
    /\ op = << >>
    /\ children = << >>
    /\ trace = << >>

NoCall == [op |-> "none", i |-> 0, j |-> 0, x |-> 0, pre |-> "none"]

Rows(h, a) == 0 .. (RG_MATRIX_MATRIX(h[a]).nrows - 1)
Cols(h, a) == 0 .. (RG_MATRIX_MATRIX(h[a]).ncols - 1)

Held(A) == DOMAIN A.ent

\* the per-coordinate state of the data model; PendingOverwrite is a
\* coordinate held by both M and DP
CoordState(C, i, j) ==
    IF <<i, j>> \in Held(C.delta_plus)
    THEN IF <<i, j>> \in Held(C.matrix) THEN "PendingOverwrite"
                                        ELSE "PendingInsert"
    ELSE IF <<i, j>> \in Held(C.delta_minus) THEN "PendingDelete"
    ELSE IF <<i, j>> \in Held(C.matrix) THEN "PresentInBase"
    ELSE "Absent"

Init ==
    /\ \E mt \in BOOLEAN : heap = RG_Matrix_new(NRows, NCols, mt)
    /\ last = NoCall
    /\ nops = 0
    /\ pc = [t \in Threads |-> "done"]
    /\ todo = [t \in Threads |-> {}]
    /\ snap = [t \in Threads |-> << >>]
    /\ written = EmptyEnt
    /\ NoJoin

SetElement ==
    /\ nops < MaxOps
    /\ \E i \in Rows(heap, PRIMARY), j \in Cols(heap, PRIMARY), x \in Values :
          /\ heap' = RG_Matrix_setElement(heap, PRIMARY, x, i, j)
          /\ last' = [op |-> "SetElement", i |-> i, j |-> j, x |-> x,
                      pre |-> CoordState(heap[PRIMARY], i, j)]
    /\ nops' = nops + 1
    /\ UNCHANGED writers

RemoveElement ==
    /\ nops < MaxOps
    /\ \E i \in Rows(heap, PRIMARY), j \in Cols(heap, PRIMARY) :
          /\ heap' = RG_Matrix_removeElement(heap, PRIMARY, i, j)
          /\ last' = [op |-> "RemoveElement", i |-> i, j |-> j, x |-> 0,
                      pre |-> CoordState(heap[PRIMARY], i, j)]
    /\ nops' = nops + 1
    /\ UNCHANGED writers

Sync ==
    /\ nops < MaxOps
    /\ heap' = RG_Matrix_sync(heap, PRIMARY)
    /\ last' = [op |-> "Sync", i |-> 0, j |-> 0, x |-> 0,
                pre |-> IF Held(heap[PRIMARY].delta_plus) = {}
                           /\ Held(heap[PRIMARY].delta_minus) = {}
                        THEN "clean" ELSE "pending"]
    /\ nops' = nops + 1
    /\ UNCHANGED writers

SetMultiEdge ==
    /\ nops < MaxOps
    /\ \E b \in BOOLEAN :
          /\ heap' = RG_Matrix_setMultiEdge(heap, PRIMARY, b)
          /\ last' = [op |-> "setMultiEdge", i |-> 0, j |-> 0,
                      x |-> IF b THEN 1 ELSE 0, pre |-> "none"]
    /\ nops' = nops + 1
    /\ UNCHANGED writers

Next == SetElement \/ RemoveElement \/ Sync \/ SetMultiEdge

Spec == Init /\ [][Next]_vars

\* ---------------------------------------------- two concurrent writers
\* Each writer runs  RG_Matrix_Lock(C); SetElement for each of its
\* coordinates; RG_Matrix_Unlock(C).  A SetElement reads the matrix and
\* then writes it back, in two steps another thread can come between.
InitWriters ==
    /\ \E mt \in BOOLEAN : heap = RG_Matrix_new(WRows, WCols, mt)
    /\ last = NoCall
    /\ nops = 0
    /\ pc = [t \in Threads |-> "start"]
    /\ \E A \in SUBSET ((0 .. (WRows - 1)) \X (0 .. (WCols - 1))) :
       \E B \in SUBSET (((0 .. (WRows - 1)) \X (0 .. (WCols - 1))) \ A) :
          /\ Cardinality(A) = SizeA
          /\ Cardinality(B) = SizeB
          /\ todo = [t \in Threads |-> IF t = "writer1" THEN A ELSE B]
    /\ snap = [t \in Threads |-> << >>]
    /\ written = EmptyEnt
    /\ NoJoin

\* the value a writer inserts at each of its coordinates
WriterValue(t) == IF t = "writer1" THEN 1 ELSE MaxVal

WriterLock(t) ==
    /\ pc[t] = "start"
    /\ RG_Matrix_Lock(heap, heap', PRIMARY, t)
    /\ pc' = [pc EXCEPT ![t] = "locked"]
    /\ UNCHANGED <<last, nops, todo, snap, written, join>>

WriterRead(t) ==
    /\ pc[t] = "locked"
    /\ \E c \in todo[t] :
          snap' = [snap EXCEPT ![t] = [h |-> heap, c |-> c, x |-> WriterValue(t)]]
    /\ pc' = [pc EXCEPT ![t] = "write"]
    /\ UNCHANGED <<heap, last, nops, todo, written, join>>

WriterWrite(t) ==
    /\ pc[t] = "write"
    /\ LET c == snap[t].c
           x == snap[t].x
           h2 == RG_Matrix_setElement(snap[t].h, PRIMARY, x, c[1], c[2])
       IN  /\ heap' = [a \in DOMAIN heap |->
                          [h2[a] EXCEPT !.mutex = heap[a].mutex]]
           /\ todo' = [todo EXCEPT ![t] = @ \ {c}]
           /\ written' = [d \in (DOMAIN written) \cup {c} |->
                             IF d = c THEN x ELSE written[d]]
    /\ snap' = [snap EXCEPT ![t] = << >>]
    /\ pc' = [pc EXCEPT ![t] = "locked"]
    /\ UNCHANGED <<last, nops, join>>

WriterUnlock(t) ==
    /\ pc[t] = "locked"
    /\ todo[t] = {}
    /\ heap' = RG_Matrix_Unlock(heap, PRIMARY)
    /\ pc' = [pc EXCEPT ![t] = "done"]
    /\ UNCHANGED <<last, nops, todo, snap, written, join>>

NextWriters ==
    \E t \in Threads :
        WriterLock(t) \/ WriterRead(t) \/ WriterWrite(t) \/ WriterUnlock(t)

SpecWriters == InitWriters /\ [][NextWriters]_vars

\* ------------------------------------------------------------ properties
Present(x) == [info |-> GrB_SUCCESS, x |-> x]
Absent == [info |-> GrB_NO_VALUE, x |-> NoX]

\* two results of an extraction agree: the same info, and on success the
\* same scalar
Same(r1, r2) == r1.info = r2.info /\ (r1.info = GrB_SUCCESS => r1.x = r2.x)

\* the logical matrix of the data model, x typecast to xtype:
\* DP[i,j] if present; else absent if DM[i,j] is present; else M[i,j] if
\* present; else absent
Logical(C, xtype, i, j) ==
    IF <<i, j>> \in Held(C.delta_plus)
    THEN Present(GB_cast(C.delta_plus.type, xtype, C.delta_plus.ent[<<i, j>>]))
    ELSE IF <<i, j>> \in Held(C.delta_minus) THEN Absent
    ELSE IF <<i, j>> \in Held(C.matrix)
    THEN Present(GB_cast(C.matrix.type, xtype, C.matrix.ent[<<i, j>>]))
    ELSE Absent

CexC2 ==
    (last.op = "RemoveElement" /\ last.pre \in {"PresentInBase", "PendingInsert"}) =>
        /\ Same(RG_Matrix_extractElement_BOOL(heap, PRIMARY, last.i, last.j), Absent)
        /\ Same(RG_Matrix_extractElement_UINT64(heap, PRIMARY, last.i, last.j), Absent)

\* C3: for every in-range coordinate ExtractElement returns exactly the
\* logical-matrix value (DP, then DM suppression, then M), in the BOOL
\* and in the UINT64 variant.
CexC3 ==
    \A i \in Rows(heap, PRIMARY), j \in Cols(heap, PRIMARY) :
        /\ Same(RG_Matrix_extractElement_BOOL(heap, PRIMARY, i, j),
                Logical(heap[PRIMARY], GrB_BOOL, i, j))
        /\ Same(RG_Matrix_extractElement_UINT64(heap, PRIMARY, i, j),
                Logical(heap[PRIMARY], GrB_UINT64, i, j))

\* the coordinates for which ExtractElement yields a value
Extractable(h, a) ==
    {c \in Rows(h, a) \X Cols(h, a) :
        RG_Matrix_extractElement_UINT64(h, a, c[1], c[2]).info = GrB_SUCCESS}

\* C4: after every operation the number of coordinates for which
\* ExtractElement yields a value equals count(M) + count(DP) - count(DM),
\* the value NVals returns.
CexC4 ==
    /\ RG_Matrix_nvals(heap, PRIMARY)
          = GrB_Matrix_nvals(heap[PRIMARY].matrix)
            + GrB_Matrix_nvals(heap[PRIMARY].delta_plus)
            - GrB_Matrix_nvals(heap[PRIMARY].delta_minus)
    /\ Cardinality(Extractable(heap, PRIMARY)) = RG_Matrix_nvals(heap, PRIMARY)

\* C5: Sync is content-preserving: every coordinate extracts the same
\* result immediately before and immediately after Sync, and NVals is
\* unchanged by Sync.
CexC5 ==
    [][last'.op = "Sync" =>
        /\ \A i \in Rows(heap, PRIMARY), j \in Cols(heap, PRIMARY) :
              Same(RG_Matrix_extractElement_UINT64(heap', PRIMARY, i, j),
                   RG_Matrix_extractElement_UINT64(heap, PRIMARY, i, j))
        /\ RG_Matrix_nvals(heap', PRIMARY) = RG_Matrix_nvals(heap, PRIMARY)]_vars

\* C6: immediately after Sync, DP and DM hold zero entries and the dirty
\* flag is false, whatever deltas were pending before the call.
ThmC6 ==
    last.op = "Sync" =>
        \A a \in DOMAIN heap :
            /\ GrB_Matrix_nvals(RG_Matrix_getDeltaPlus(heap, a)) = 0
            /\ GrB_Matrix_nvals(RG_MATRIX_DELTA_MINUS(heap[a])) = 0
            /\ ~RG_Matrix_isDirty(heap, a)

\* Sync has run with deltas pending and has committed entries to M
WitC6 ==
    /\ last.op = "Sync"
    /\ last.pre = "pending"
    /\ Held(heap[PRIMARY].matrix) # {}

\* C7: with transpose maintenance, after every completed SetElement,
\* RemoveElement or Sync, GetTranspose().ExtractElement(j,i) equals
\* ExtractElement(i,j) on the primary for all coordinates.
ThmC7 ==
    heap[PRIMARY].maintain_transpose =>
        \A i \in Rows(heap, PRIMARY), j \in Cols(heap, PRIMARY) :
            Same(RG_Matrix_extractElement_UINT64(
                     heap, RG_Matrix_getTranspose(heap, PRIMARY), j, i),
                 RG_Matrix_extractElement_UINT64(heap, PRIMARY, i, j))

\* a mirrored matrix holds a committed entry, a pending insert and has
\* just had an entry removed
WitC7 ==
    /\ heap[PRIMARY].maintain_transpose
    /\ last.op = "RemoveElement"
    /\ last.pre = "PresentInBase"
    /\ Held(heap[PRIMARY].delta_plus) # {}
    /\ Held(heap[MIRROR].delta_minus) # {}

\* C8: DP and DM never hold the same coordinate.
ThmC8 ==
    \A a \in DOMAIN heap :
        Held(RG_MATRIX_DELTA_PLUS(heap[a])) \cap Held(RG_MATRIX_DELTA_MINUS(heap[a])) = {}

\* SetElement has run on a pending-deleted coordinate
WitC8 ==
    /\ last.op = "SetElement"
    /\ last.pre = "PendingDelete"
    /\ <<last.i, last.j>> \in Held(heap[PRIMARY].delta_plus)

\* C9: every coordinate held by DM is also held by the base matrix M.
ThmC9 ==
    \A a \in DOMAIN heap :
        Held(RG_MATRIX_DELTA_MINUS(heap[a])) \subseteq Held(RG_MATRIX_MATRIX(heap[a]))

\* RemoveElement has recorded a deletion in DM, and RemoveElement has
\* also been called on an absent coordinate
WitC9 ==
    /\ last.op = "RemoveElement"
    /\ last.pre = "Absent"
    /\ Held(heap[PRIMARY].delta_minus) # {}

\* C10: two concurrent writers that wrap their insertions of disjoint
\* coordinate sets in Lock()/Unlock() lose no update: once both have
\* finished, NVals is the sum of the two set sizes and every inserted
\* coordinate extracts its value.
ThmC10 ==
    (\A t \in Threads : pc[t] = "done") =>
        /\ RG_Matrix_nvals(heap, PRIMARY) = SizeA + SizeB
        /\ \A c \in DOMAIN written :
              Same(RG_Matrix_extractElement_UINT64(heap, PRIMARY, c[1], c[2]),
                   Present(written[c]))

\* both writers have finished and have inserted all their coordinates
WitC10 ==
    /\ \A t \in Threads : pc[t] = "done"
    /\ Cardinality(DOMAIN written) = SizeA + SizeB
    /\ heap[PRIMARY].mutex = UNLOCKED

\* --------------------------------- a reader beside a writer under lock
\* writer1 runs  RG_Matrix_Lock(C); SetElement for each of its
\* coordinates; Sync; RG_Matrix_Unlock(C).  SetElement and Sync update
\* the mirror first and the primary second, and another thread can run
\* between the two halves.  writer2 takes a handle, the primary or the
\* one RG_Matrix_getTranspose returns, locks it with RG_Matrix_Lock, reads
\* and unlocks.
InitMirror ==
    /\ heap = RG_Matrix_new(WRows, WCols, TRUE)
    /\ last = NoCall
    /\ nops = 0
    /\ pc = [t \in Threads |-> "start"]
    /\ \E A \in SUBSET ((0 .. (WRows - 1)) \X (0 .. (WCols - 1))) :
          /\ Cardinality(A) = SizeA
          /\ todo = [t \in Threads |-> IF t = "writer1" THEN A ELSE {}]
    /\ snap = [t \in Threads |-> << >>]
    /\ written = EmptyEnt
    /\ NoJoin

SetElementMirror(t) ==
    /\ pc[t] = "locked"
    /\ \E c \in todo[t], x \in Values :
          LET h2 == RG_Matrix_setElement(heap, PRIMARY, x, c[1], c[2])
          IN  /\ heap' = [heap EXCEPT ![MIRROR] = h2[MIRROR]]
              /\ snap' = [snap EXCEPT ![t] = [c |-> c, x |-> x]]
    /\ pc' = [pc EXCEPT ![t] = "half"]
    /\ UNCHANGED <<last, nops, todo, written, join>>

SetElementPrimary(t) ==
    /\ pc[t] = "half"
    /\ LET c == snap[t].c
           x == snap[t].x
           h2 == RG_Matrix_setElement(heap, PRIMARY, x, c[1], c[2])
       IN  /\ heap' = [heap EXCEPT ![PRIMARY] = h2[PRIMARY]]
           /\ todo' = [todo EXCEPT ![t] = @ \ {c}]
           /\ written' = [d \in (DOMAIN written) \cup {c} |->
                             IF d = c THEN x ELSE written[d]]
    /\ snap' = [snap EXCEPT ![t] = << >>]
    /\ pc' = [pc EXCEPT ![t] = "locked"]
    /\ UNCHANGED <<last, nops, join>>

SyncMirror(t) ==
    /\ pc[t] = "locked"
    /\ todo[t] = {}
    /\ RG_Matrix_isDirty(heap, PRIMARY)
    /\ heap' = [heap EXCEPT ![MIRROR] = RG_Matrix_sync(heap, PRIMARY)[MIRROR]]
    /\ pc' = [pc EXCEPT ![t] = "sync"]
    /\ UNCHANGED <<last, nops, todo, snap, written, join>>

SyncPrimary(t) ==
    /\ pc[t] = "sync"
    /\ heap' = [heap EXCEPT ![PRIMARY] = RG_Matrix_sync(heap, PRIMARY)[PRIMARY]]
    /\ pc' = [pc EXCEPT ![t] = "locked"]
    /\ UNCHANGED <<last, nops, todo, snap, written, join>>

ReaderLock(t) ==
    /\ pc[t] = "start"
    /\ \E a \in {PRIMARY, RG_Matrix_getTranspose(heap, PRIMARY)} :
          /\ RG_Matrix_Lock(heap, heap', a, t)
          /\ snap' = [snap EXCEPT ![t] = [a |-> a]]
    /\ pc' = [pc EXCEPT ![t] = "reading"]
    /\ UNCHANGED <<last, nops, todo, written, join>>

ReaderUnlock(t) ==
    /\ pc[t] = "reading"
    /\ heap' = RG_Matrix_Unlock(heap, snap[t].a)
    /\ snap' = [snap EXCEPT ![t] = << >>]
    /\ pc' = [pc EXCEPT ![t] = "done"]
    /\ UNCHANGED <<last, nops, todo, written, join>>

NextMirror ==
    \/ WriterLock("writer1")
    \/ SetElementMirror("writer1")
    \/ SetElementPrimary("writer1")
    \/ SyncMirror("writer1")
    \/ SyncPrimary("writer1")
    \/ WriterUnlock("writer1")
    \/ ReaderLock("writer2")
    \/ ReaderUnlock("writer2")

SpecMirror == InitMirror /\ [][NextMirror]_vars

\* C11: the primary and its mirror are locked as one unit: a reader that
\* has acquired the lock of the handle it reads, while it holds it, never
\* finds GetTranspose().ExtractElement(j,i) different from
\* ExtractElement(i,j) on the primary.
CexC11 ==
    pc["writer2"] = "reading" =>
        \A i \in Rows(heap, PRIMARY), j \in Cols(heap, PRIMARY) :
            Same(RG_Matrix_extractElement_UINT64(
                     heap, RG_Matrix_getTranspose(heap, PRIMARY), j, i),
                 RG_Matrix_extractElement_UINT64(heap, PRIMARY, i, j))

\* ------------------------- a standalone read beside a locked sequence
\* writer1 runs  RG_Matrix_Lock(C); a sequence of SetElement and
\* RemoveElement calls; RG_Matrix_Unlock(C).  writer2 holds no lock and
\* makes one standalone RG_Matrix_extractElement_UINT64 call, which runs
\* as the code does, without touching the mutex.
InitStandalone ==
    /\ \E mt \in BOOLEAN : heap = RG_Matrix_new(NRows, NCols, mt)
    /\ last = NoCall
    /\ nops = 0
    /\ pc = [t \in Threads |-> "start"]
    /\ todo = [t \in Threads |-> {}]
    /\ snap = [t \in Threads |-> << >>]
    /\ written = EmptyEnt
    /\ NoJoin

LockedSetElement(t) ==
    /\ pc[t] = "locked"
    /\ SetElement

LockedRemoveElement(t) ==
    /\ pc[t] = "locked"
    /\ RemoveElement

StandaloneExtract(t) ==
    /\ pc[t] = "start"
    /\ \E i \in Rows(heap, PRIMARY), j \in Cols(heap, PRIMARY) :
          snap' = [snap EXCEPT ![t] =
                      [i |-> i, j |-> j,
                       r |-> RG_Matrix_extractElement_UINT64(heap, PRIMARY, i, j)]]
    /\ pc' = [pc EXCEPT ![t] = "done"]
    /\ UNCHANGED <<heap, last, nops, todo, written, join>>

NextStandalone ==
    \/ WriterLock("writer1")
    \/ LockedSetElement("writer1")
    \/ LockedRemoveElement("writer1")
    \/ WriterUnlock("writer1")
    \/ StandaloneExtract("writer2")

SpecStandalone == InitStandalone /\ [][NextStandalone]_vars

\* C12: a standalone ExtractElement by a thread that holds no lock never
\* interleaves with another thread's Lock() ... Unlock() sequence: once
\* both have finished, its result is the one the matrix gives before the
\* whole sequence or the one it gives after the whole sequence.
CexC12 ==
    (pc["writer1"] = "done" /\ pc["writer2"] = "done") =>
        LET o == snap["writer2"]
            before == RG_Matrix_new(NRows, NCols, heap[PRIMARY].maintain_transpose)
        IN  \/ Same(o.r, RG_Matrix_extractElement_UINT64(before, PRIMARY, o.i, o.j))
            \/ Same(o.r, RG_Matrix_extractElement_UINT64(heap, PRIMARY, o.i, o.j))

\* --------------------------------------------------------------- resize
\* resize(rows, cols): the entries outside the new dimensions are dropped
GrB_Matrix_resize(A, nrows_new, ncols_new) ==
    [A EXCEPT !.nrows = nrows_new,
              !.ncols = ncols_new,
              !.ent = [c \in {d \in DOMAIN A.ent :
                                 d[1] < nrows_new /\ d[2] < ncols_new} |->
                          A.ent[c]]]

\* the heap after RG_Matrix_resize(C, nrows_new, ncols_new); the mirror is
\* resized with the same (nrows_new, ncols_new)
RECURSIVE RG_Matrix_resize(_, _, _, _)
RG_Matrix_resize(h, a, nrows_new, ncols_new) ==
    LET C == h[a]
        h1 == IF C.maintain_transpose
              THEN RG_Matrix_resize(h, C.transposed, nrows_new, ncols_new)
              ELSE h
        m == RG_MATRIX_MATRIX(C)
        delta_plus == RG_MATRIX_DELTA_PLUS(C)
        delta_minus == RG_MATRIX_DELTA_MINUS(C)
    IN  [h1 EXCEPT ![a] =
            [C EXCEPT
               !.matrix = GrB_Matrix_resize(m, nrows_new, ncols_new),
               !.delta_plus = GrB_Matrix_resize(delta_plus, nrows_new, ncols_new),
               !.delta_minus = GrB_Matrix_resize(delta_minus, nrows_new, ncols_new)]]

\* Resize(newRows, newCols); every GrB_Matrix_resize succeeds, so the info
\* handed back is GrB_SUCCESS, kept in last.pre
Resize ==
    /\ nops < MaxOps
    /\ \E nrows_new \in 1 .. WRows, ncols_new \in 1 .. WCols :
          /\ heap' = RG_Matrix_resize(heap, PRIMARY, nrows_new, ncols_new)
          /\ last' = [op |-> "Resize", i |-> nrows_new, j |-> ncols_new,
                      x |-> 0, pre |-> GrB_SUCCESS]
    /\ nops' = nops + 1
    /\ UNCHANGED writers

NextResize == Next \/ Resize

SpecResize == Init /\ [][NextResize]_vars

\* C13: with transpose maintenance, after Create and after every Resize,
\* non-square ones included, the mirror's dimensions are the primary's
\* dimensions swapped.
CexC13 ==
    heap[PRIMARY].maintain_transpose =>
        /\ RG_MATRIX_MATRIX(heap[MIRROR]).nrows = RG_MATRIX_MATRIX(heap[PRIMARY]).ncols
        /\ RG_MATRIX_MATRIX(heap[MIRROR]).ncols = RG_MATRIX_MATRIX(heap[PRIMARY]).nrows

\* C14: a Resize to fewer rows or fewer columns than the matrix has fails
\* with an error result and leaves the dimensions and the content of M, DP
\* and DM unchanged; dimensions never decrease.
CexC14 ==
    [][(/\ last'.op = "Resize"
        /\ \/ last'.i < RG_MATRIX_MATRIX(heap[PRIMARY]).nrows
           \/ last'.j < RG_MATRIX_MATRIX(heap[PRIMARY]).ncols)
       => /\ last'.pre # GrB_SUCCESS
          /\ heap' = heap]_vars

\* -------------------------------------------------------- the whole API
GrB_INDEX_OUT_OF_BOUNDS == "GrB_INDEX_OUT_OF_BOUNDS"

\* C(I,J) = x with no mask and no accumulator: every coordinate of I x J
\* receives x; an index outside the matrix fails the call and assigns
\* nothing
GxB_Matrix_subassign_UINT64(A, x, I, J) ==
    IF \E i \in I, j \in J : ~InRange(A, i, j)
    THEN [info |-> GrB_INDEX_OUT_OF_BOUNDS, A |-> A]
    ELSE [info |-> GrB_SUCCESS,
          A |-> [A EXCEPT !.ent = [c \in (DOMAIN A.ent) \cup (I \X J) |->
                                      IF c \in I \X J THEN x ELSE A.ent[c]]]]

\* mutant: assigns into the base matrix
RECURSIVE Mut_subassign_Base(_, _, _, _, _)
Mut_subassign_Base(h, a, x, I, J) ==
    LET C == h[a]
        h1 == IF C.maintain_transpose
              THEN Mut_subassign_Base(h, C.transposed, x, J, I).h
              ELSE h
        r == GxB_Matrix_subassign_UINT64(RG_MATRIX_MATRIX(C), x, I, J)
        h2 == [h1 EXCEPT ![a].matrix = r.A]
    IN  [info |-> r.info,
         h |-> IF r.info = GrB_SUCCESS THEN RG_Matrix_setDirty(h2, a) ELSE h2]

\* the info returned by RG_Matrix_subassign_UINT64(C, NULL, NULL, x, I, ni,
\* J, nj, NULL) and the heap after it, in a build where ASSERT compiles to
\* nothing (where it does not, ASSERT(false) ends the process in the call)
RECURSIVE RG_Matrix_subassign_UINT64(_, _, _, _, _)
RG_Matrix_subassign_UINT64(h, a, x, I, J) ==
    LET C == h[a]
        h1 == IF C.maintain_transpose
              THEN RG_Matrix_subassign_UINT64(h, C.transposed, x, J, I).h
              ELSE h
        delta_plus == RG_MATRIX_DELTA_PLUS(C)
        r == GxB_Matrix_subassign_UINT64(delta_plus, x, I, J)
        h2 == [h1 EXCEPT ![a].delta_plus = r.A]
    IN  [info |-> r.info,
         h |-> IF r.info = GrB_SUCCESS THEN RG_Matrix_setDirty(h2, a) ELSE h2]

\* ExtractElement(i, j), indices one past the last row and column included
ExtractElement ==
    /\ \E i \in 0 .. RG_MATRIX_MATRIX(heap[PRIMARY]).nrows,
          j \in 0 .. RG_MATRIX_MATRIX(heap[PRIMARY]).ncols :
          LET r == RG_Matrix_extractElement_UINT64(heap, PRIMARY, i, j)
          IN  last' = [op |-> "ExtractElement", i |-> i, j |-> j,
                       x |-> r.x, pre |-> r.info]
    /\ nops' = nops + 1
    /\ UNCHANGED <<heap, writers>>

NVals ==
    /\ last' = [op |-> "NVals", i |-> 0, j |-> 0,
                x |-> RG_Matrix_nvals(heap, PRIMARY), pre |-> "none"]
    /\ nops' = nops + 1
    /\ UNCHANGED <<heap, writers>>

\* GetTranspose(); last.pre keeps the handle returned
GetTranspose ==
    /\ last' = [op |-> "GetTranspose", i |-> 0, j |-> 0, x |-> 0,
                pre |-> RG_Matrix_getTranspose(heap, PRIMARY)]
    /\ nops' = nops + 1
    /\ UNCHANGED <<heap, writers>>

\* sub-assignment of x to row i, all columns; last.pre keeps the info
Subassign ==
    /\ \E i \in 0 .. RG_MATRIX_MATRIX(heap[PRIMARY]).nrows, x \in Values :
          LET r == RG_Matrix_subassign_UINT64(heap, PRIMARY, x, {i},
                                              Cols(heap, PRIMARY))
          IN  /\ heap' = r.h
              /\ last' = [op |-> "subassign", i |-> i, j |-> 0, x |-> x,
                          pre |-> r.info]
    /\ nops' = nops + 1
    /\ UNCHANGED writers

Lock ==
    /\ RG_Matrix_Lock(heap, heap', PRIMARY, "writer1")
    /\ last' = [op |-> "Lock", i |-> 0, j |-> 0, x |-> 0, pre |-> "none"]
    /\ nops' = nops + 1
    /\ UNCHANGED writers

Unlock ==
    /\ heap[PRIMARY].mutex = "writer1"
    /\ heap' = RG_Matrix_Unlock(heap, PRIMARY)
    /\ last' = [op |-> "Unlock", i |-> 0, j |-> 0, x |-> 0, pre |-> "none"]
    /\ nops' = nops + 1
    /\ UNCHANGED writers

NextAPI ==
    \/ nops < MaxCalls /\ SetElement
    \/ nops < MaxCalls /\ RemoveElement
    \/ nops < MaxCalls /\ Sync
    \/ nops < MaxCalls /\ SetMultiEdge
    \/ nops < MaxCalls /\ ExtractElement
    \/ nops < MaxCalls /\ NVals
    \/ nops < MaxCalls /\ GetTranspose
    \/ nops < MaxCalls /\ Subassign
    \/ nops < MaxCalls /\ Lock
    \/ nops < MaxCalls /\ Unlock
    \/ nops < MaxCalls /\ Resize

SpecAPI == Init /\ [][NextAPI]_vars

\* C15: GetTranspose on a matrix created without transpose maintenance
\* fails with an error result and returns no null handle; on a matrix
\* created with it, it returns the mirror.
CexC15 ==
    last.op = "GetTranspose" =>
        IF heap[PRIMARY].maintain_transpose
        THEN last.pre = MIRROR
        ELSE last.pre # NULL

\* C16: ExtractElement with a row or column index at or beyond the
\* dimensions fails with an index error, a result distinct from "absent"
\* and from success, and leaves M, DP, DM and the dirty flag unchanged.
ThmC16 ==
    [][(/\ last'.op = "ExtractElement"
        /\ \/ last'.i >= RG_MATRIX_MATRIX(heap[PRIMARY]).nrows
           \/ last'.j >= RG_MATRIX_MATRIX(heap[PRIMARY]).ncols)
       => /\ last'.pre = GrB_INVALID_INDEX
          /\ last'.pre \notin {GrB_SUCCESS, GrB_NO_VALUE}
          /\ heap' = heap]_vars

\* ExtractElement has been called with an index beyond the dimensions on
\* a dirty matrix that holds a pending insert
WitC16 ==
    /\ last.op = "ExtractElement"
    /\ \/ last.i >= RG_MATRIX_MATRIX(heap[PRIMARY]).nrows
       \/ last.j >= RG_MATRIX_MATRIX(heap[PRIMARY]).ncols
    /\ Held(heap[PRIMARY].delta_plus) # {}
    /\ RG_Matrix_isDirty(heap, PRIMARY)

\* C17: after every SetElement, RemoveElement and successful
\* sub-assignment IsDirty() is true, and no call other than Sync, reads
\* included, turns the dirty flag from true to false.
ThmC17 ==
    [][/\ (\/ last'.op \in {"SetElement", "RemoveElement"}
           \/ last'.op = "subassign" /\ last'.pre = GrB_SUCCESS)
             => RG_Matrix_isDirty(heap', PRIMARY)
       /\ (RG_Matrix_isDirty(heap, PRIMARY) /\ ~RG_Matrix_isDirty(heap', PRIMARY))
             => last'.op = "Sync"]_vars

\* a sub-assignment has dirtied a clean matrix and a read has followed it
WitC17 ==
    /\ last.op \in {"ExtractElement", "NVals", "GetTranspose"}
    /\ RG_Matrix_isDirty(heap, PRIMARY)
    /\ Held(heap[PRIMARY].delta_plus) = Rows(heap, PRIMARY) \X Cols(heap, PRIMARY)
    /\ nops = 2

\* C18: SetElement, RemoveElement, sub-assignment, ExtractElement, NVals,
\* GetTranspose, Lock and Unlock all leave the entries of the base matrix
\* M unchanged; of the calls that touch entries only Sync writes M.
ThmC18 ==
    [][last'.op \in {"SetElement", "RemoveElement", "subassign",
                     "ExtractElement", "NVals", "GetTranspose",
                     "Lock", "Unlock"}
       => \A a \in DOMAIN heap :
             RG_Matrix_getGrB_Matrix(heap', a) = RG_Matrix_getGrB_Matrix(heap, a)]_vars

\* a sub-assignment has written another value over a coordinate that M
\* holds, and M still holds the committed one
WitC18 ==
    /\ last.op = "subassign"
    /\ last.pre = GrB_SUCCESS
    /\ <<last.i, 0>> \in Held(heap[PRIMARY].matrix)
    /\ heap[PRIMARY].matrix.ent[<<last.i, 0>>] # last.x
    /\ heap[PRIMARY].delta_plus.ent[<<last.i, 0>>] = last.x

\* C19: a SetElement at a coordinate that is already logically present:
\* with multi-edge disabled NVals does not grow and the coordinate extracts
\* the new value; with multi-edge enabled the coordinate's multiplicity
\* grows by one.
CexC19 ==
    [][(last'.op = "SetElement" /\ last'.pre \in {"PresentInBase", "PendingInsert"})
       => IF RG_Matrix_getMultiEdge(heap, PRIMARY)
          THEN heap'[PRIMARY].mult[<<last'.i, last'.j>>]
                  = heap[PRIMARY].mult[<<last'.i, last'.j>>] + 1
          ELSE /\ RG_Matrix_nvals(heap', PRIMARY) = RG_Matrix_nvals(heap, PRIMARY)
               /\ Same(RG_Matrix_extractElement_UINT64(heap', PRIMARY, last'.i, last'.j),
                       Present(last'.x))]_vars

\* C20: every coordinate is always in exactly one of the states Absent,
\* PresentInBase, PendingInsert, PendingDelete, and a call moves it only
\* along these transitions: SetElement Absent -> PendingInsert and
\* PendingDelete -> PresentInBase; RemoveElement PresentInBase ->
\* PendingDelete and PendingInsert -> Absent; Sync PendingInsert ->
\* PresentInBase and PendingDelete -> Absent, Absent and PresentInBase
\* staying as they are.
CexC20 ==
    [][\A i \in Rows(heap, PRIMARY), j \in Cols(heap, PRIMARY) :
          LET s == CoordState(heap[PRIMARY], i, j)
              t == CoordState(heap'[PRIMARY], i, j)
              called == <<i, j>> = <<last'.i, last'.j>>
          IN  /\ t \in {"Absent", "PresentInBase", "PendingInsert", "PendingDelete"}
              /\ s # t =>
                    <<last'.op, s, t>> \in
                        {<<"SetElement", "Absent", "PendingInsert">>,
                         <<"SetElement", "PendingDelete", "PresentInBase">>,
                         <<"RemoveElement", "PresentInBase", "PendingDelete">>,
                         <<"RemoveElement", "PendingInsert", "Absent">>,
                         <<"Sync", "PendingInsert", "PresentInBase">>,
                         <<"Sync", "PendingDelete", "Absent">>}
              /\ (last'.op = "SetElement" /\ called) =>
                    /\ s = "Absent" => t = "PendingInsert"
                    /\ s = "PendingDelete" => t = "PresentInBase"
              /\ (last'.op = "RemoveElement" /\ called) =>
                    /\ s = "PresentInBase" => t = "PendingDelete"
                    /\ s = "PendingInsert" => t = "Absent"
              /\ (last'.op \in {"SetElement", "RemoveElement"} /\ ~called) => t = s
              /\ last'.op = "Sync" =>
                    /\ s = "PendingInsert" => t = "PresentInBase"
                    /\ s = "PendingDelete" => t = "Absent"
                    /\ s \in {"Absent", "PresentInBase"} => t = s]_vars

\* C21: RemoveElement(i,j) never writes M and picks its target by where
\* the coordinate lives: in DP, it is removed from DP and DM stays as it
\* is; else present through M and not pending-deleted, it is added to DM
\* and DP stays as it is; else (absent from M and DP, or already
\* pending-deleted) M, DP and DM all stay as they are and so does NVals.
ThmC21 ==
    [][last'.op = "RemoveElement" =>
          LET c == <<last'.i, last'.j>>
              C == heap[PRIMARY]
              D == heap'[PRIMARY]
          IN  /\ RG_MATRIX_MATRIX(D) = RG_MATRIX_MATRIX(C)
              /\ IF c \in Held(RG_MATRIX_DELTA_PLUS(C))
                 THEN /\ RG_MATRIX_DELTA_PLUS(D)
                            = GrB_Matrix_removeElement(RG_MATRIX_DELTA_PLUS(C), c[1], c[2])
                      /\ RG_MATRIX_DELTA_MINUS(D) = RG_MATRIX_DELTA_MINUS(C)
                 ELSE IF c \in Held(RG_MATRIX_MATRIX(C))
                         /\ c \notin Held(RG_MATRIX_DELTA_MINUS(C))
                 THEN /\ RG_MATRIX_DELTA_PLUS(D) = RG_MATRIX_DELTA_PLUS(C)
                      /\ Held(RG_MATRIX_DELTA_MINUS(D))
                            = Held(RG_MATRIX_DELTA_MINUS(C)) \cup {c}
                 ELSE /\ RG_MATRIX_DELTA_PLUS(D) = RG_MATRIX_DELTA_PLUS(C)
                      /\ RG_MATRIX_DELTA_MINUS(D) = RG_MATRIX_DELTA_MINUS(C)
                      /\ RG_Matrix_nvals(heap', PRIMARY) = RG_Matrix_nvals(heap, PRIMARY)]_vars

\* RemoveElement has been called on a coordinate that was already
\* pending-deleted, and DM still holds it
WitC21 ==
    /\ last.op = "RemoveElement"
    /\ last.pre = "PendingDelete"
    /\ <<last.i, last.j>> \in Held(heap[PRIMARY].delta_minus)
    /\ RG_Matrix_nvals(heap, PRIMARY) = 0

\* ------------------------------ standalone calls that lock for themselves
\* Each thread makes one standalone SetElement or RemoveElement, indices
\* one past the last row and column included.  The call takes the lock with
\* RG_Matrix_Lock, runs, and releases it with RG_Matrix_Unlock on whichever
\* way it leaves: "failure" (an index beyond the dimensions), "early"
\* (RemoveElement finds nothing to remove) or "normal".
ScopedEnter(t) ==
    /\ pc[t] = "start"
    /\ RG_Matrix_Lock(heap, heap', PRIMARY, t)
    /\ \E call \in {"SetElement", "RemoveElement"},
          i \in 0 .. RG_MATRIX_MATRIX(heap[PRIMARY]).nrows,
          j \in 0 .. RG_MATRIX_MATRIX(heap[PRIMARY]).ncols :
          snap' = [snap EXCEPT ![t] =
                      [op |-> call, i |-> i, j |-> j, x |-> WriterValue(t),
                       exit |-> "none"]]
    /\ pc' = [pc EXCEPT ![t] = "body"]
    /\ UNCHANGED <<last, nops, todo, written, join>>

ScopedBody(t) ==
    /\ pc[t] = "body"
    /\ LET c == snap[t]
           state == CoordState(heap[PRIMARY], c.i, c.j)
           exit == IF ~InRange(RG_MATRIX_MATRIX(heap[PRIMARY]), c.i, c.j)
                   THEN "failure"
                   ELSE IF c.op = "RemoveElement" /\ state \in {"Absent", "PendingDelete"}
                   THEN "early"
                   ELSE "normal"
           h2 == IF exit # "normal" THEN heap
                 ELSE IF c.op = "SetElement"
                 THEN RG_Matrix_setElement(heap, PRIMARY, c.x, c.i, c.j)
                 ELSE RG_Matrix_removeElement(heap, PRIMARY, c.i, c.j)
       IN  /\ heap' = h2
           /\ snap' = [snap EXCEPT ![t].exit = exit]
    /\ pc' = [pc EXCEPT ![t] = "exit"]
    /\ UNCHANGED <<last, nops, todo, written, join>>

ScopedExit(t) ==
    /\ pc[t] = "exit"
    /\ heap' = RG_Matrix_Unlock(heap, PRIMARY)
    /\ pc' = [pc EXCEPT ![t] = "done"]
    /\ UNCHANGED <<last, nops, todo, snap, written, join>>

ScopedCall(t) == ScopedEnter(t) \/ ScopedBody(t) \/ ScopedExit(t)

NextScoped == \E t \in Threads : ScopedCall(t)

\* a thread that can take a step is scheduled sooner or later
SpecScoped ==
    /\ InitStandalone
    /\ [][NextScoped]_vars
    /\ \A t \in Threads : WF_vars(ScopedCall(t))

RECURSIVE NestedCalls(_, _, _)
NestedCalls(h, a, n) ==
    IF n = 0 \/ a \notin DOMAIN h THEN << >>
    ELSE IF h[a].maintain_transpose
    THEN <<h[a].transposed>> \o NestedCalls(h, h[a].transposed, n - 1)
    ELSE << >>

\* C23: the mirror never maintains a mirror of its own, so a mirrored call
\* on the primary makes exactly one nested call, on the mirror, and none
\* back into the primary.
ThmC23 ==
    /\ \A a \in DOMAIN heap : a # PRIMARY => ~heap[a].maintain_transpose
    /\ NestedCalls(heap, PRIMARY, MaxDepth)
          = IF heap[PRIMARY].maintain_transpose THEN <<MIRROR>> ELSE << >>

\* setMultiEdge and a sub-assignment have both run on a mirrored matrix and
\* have reached the mirror
WitC23 ==
    /\ heap[PRIMARY].maintain_transpose
    /\ last.op = "subassign"
    /\ last.pre = GrB_SUCCESS
    /\ Held(heap[MIRROR].delta_plus) # {}
    /\ RG_Matrix_getMultiEdge(heap, MIRROR)

\* C24: the multi-edge flags of a primary and of its mirror are always
\* equal, and right after RG_Matrix_setMultiEdge(C, b) both are b.
ThmC24 ==
    /\ heap[PRIMARY].maintain_transpose =>
          RG_Matrix_getMultiEdge(heap, PRIMARY)
             = RG_Matrix_getMultiEdge(heap, RG_Matrix_getTranspose(heap, PRIMARY))
    /\ last.op = "setMultiEdge" =>
          \A a \in DOMAIN heap : RG_Matrix_getMultiEdge(heap, a) = (last.x = 1)

\* the flag of a mirrored matrix has been set and then cleared again
WitC24 ==
    /\ heap[PRIMARY].maintain_transpose
    /\ last.op = "setMultiEdge"
    /\ last.x = 0
    /\ nops >= 3
    /\ Held(heap[PRIMARY].delta_plus) # {}
    /\ heap[PRIMARY].mult # EmptyEnt
    /\ \E c \in DOMAIN heap[PRIMARY].mult : heap[PRIMARY].mult[c] > 1

\* C25: the unsigned nvals(M) + nvals(DP) - nvals(DM) of RG_Matrix_nvals
\* never wraps around: count(DM) <= count(M) <= count(M) + count(DP) in
\* every state, and the value returned is that difference itself, a
\* non-negative number.
ThmC25 ==
    \A a \in DOMAIN heap :
        LET m_nvals == GrB_Matrix_nvals(RG_MATRIX_MATRIX(heap[a]))
            dp_nvals == GrB_Matrix_nvals(RG_MATRIX_DELTA_PLUS(heap[a]))
            dm_nvals == GrB_Matrix_nvals(RG_MATRIX_DELTA_MINUS(heap[a]))
        IN  /\ dm_nvals <= m_nvals
            /\ dm_nvals <= m_nvals + dp_nvals
            /\ RG_Matrix_nvals(heap, a) = m_nvals + dp_nvals - dm_nvals
            /\ RG_Matrix_nvals(heap, a) >= 0

\* every entry of M is pending-deleted while DP holds a pending insert
WitC25 ==
    /\ GrB_Matrix_nvals(heap[PRIMARY].matrix) > 0
    /\ GrB_Matrix_nvals(heap[PRIMARY].delta_minus)
          = GrB_Matrix_nvals(heap[PRIMARY].matrix)
    /\ GrB_Matrix_nvals(heap[PRIMARY].delta_plus) > 0
    /\ last.op = "SetElement"

\* ------------------------------------------------------ value hash join
\* (src/execution_plan/ops/op_value_hash_join.c)
\* SIValue: a type and, for an integer, its value
T_INT64 == 2 ^ 13
T_NULL == 2 ^ 15
COMPARED_NULL == -2

SI_LongVal(n) == [type |-> T_INT64, longval |-> n]
SI_NullVal == [type |-> T_NULL, longval |-> 0]
SIValue_IsNull(v) == v.type = T_NULL

JoinValues == {SI_LongVal(n) : n \in 1 .. MaxKey} \cup {SI_NullVal}

\* SIValue_Compare(a, b, &disjointOrNull): the order of two values of one
\* type, else the difference of the types, with COMPARED_NULL reported
\* when either value is NULL
SIValue_Compare(a, b) ==
    IF a.type = b.type /\ a.type = T_INT64
    THEN [cmp |-> a.longval - b.longval, disjointOrNull |-> 0]
    ELSE [cmp |-> a.type - b.type, disjointOrNull |-> COMPARED_NULL]

\* a record: its identity, the value the join expression evaluates to on
\* it, and the entry at join_value_rec_idx
Record_New(id, v) == [id |-> id, exp |-> v, pivot |-> SI_NullVal]
\* the NULL record pointer
NoRecord == Record_New(<<"null", 0, 0>>, SI_NullVal)
AR_EXP_Evaluate(r) == r.exp
Record_Get(r) == r.pivot
Record_AddScalar(r, v) == [r EXCEPT !.pivot = v]

\* an array of records: the NULL array pointer, or an allocated array and
\* its items
NoArray == [allocated |-> FALSE, items |-> << >>]
array_new == [allocated |-> TRUE, items |-> << >>]
array_len(a) == Len(a.items)
array_append(a, r) == [a EXCEPT !.items = Append(@, r)]

\* the while loop of _binarySearchLeftmost; arrays are indexed from 0 in
\* the code and from 1 in the model
RECURSIVE LeftmostLoop(_, _, _, _)
LeftmostLoop(array, v, left, right) ==
    IF left < right
    THEN LET pos == (right + left) \div 2
             x == Record_Get(array[pos + 1])
         IN  IF SIValue_Compare(x, v).cmp < 0
             THEN LeftmostLoop(array, v, pos + 1, right)
             ELSE LeftmostLoop(array, v, left, pos)
    ELSE left

\* [found, idx]
binarySearchLeftmost(array, len, v) ==
    LET left == LeftmostLoop(array, v, 0, len)
    IN  IF left = len THEN [found |-> FALSE, idx |-> left]
        ELSE LET c == SIValue_Compare(Record_Get(array[left + 1]), v)
             IN  [found |-> c.cmp = 0 /\ c.disjointOrNull # COMPARED_NULL,
                  idx |-> left]

RECURSIVE RightmostLoop(_, _, _, _)
RightmostLoop(array, v, left, right) ==
    IF left < right
    THEN LET pos == (right + left) \div 2
             x == Record_Get(array[pos + 1])
         IN  IF SIValue_Compare(v, x).cmp < 0
             THEN RightmostLoop(array, v, left, pos)
             ELSE RightmostLoop(array, v, pos + 1, right)
    ELSE right

\* [found, idx]; idx is a uint
binarySearchRightmost(array, len, v) ==
    [found |-> TRUE,
     idx |-> (RightmostLoop(array, v, 0, len) - 1) % (2 ^ IndexWidth)]

\* mutant: the run of matches is counted one short
Mut_set_intersection_idx_Short(o, v) ==
    LET o1 == [o EXCEPT !.intersect_idx = -1, !.number_of_intersections = 0]
        record_count == array_len(o.cached_records)
        l == binarySearchLeftmost(o.cached_records.items, array_len(o.cached_records), v)
        leftmost_idx == l.idx
        r == binarySearchRightmost(
                 SubSeq(o.cached_records.items, leftmost_idx + 1, record_count),
                 record_count - leftmost_idx, v)
        rightmost_idx == (r.idx + leftmost_idx) % (2 ^ IndexWidth)
    IN  IF ~l.found THEN [found |-> FALSE, op |-> o1]
        ELSE [found |-> TRUE,
              op |-> [o1 EXCEPT
                        !.intersect_idx = leftmost_idx,
                        !.number_of_intersections =
                            (rightmost_idx - leftmost_idx) % (2 ^ IndexWidth)]]

\* the operator after _set_intersection_idx(op, v), and what the call
\* returned
set_intersection_idx(o, v) ==
    LET o1 == [o EXCEPT !.intersect_idx = -1, !.number_of_intersections = 0]
        record_count == array_len(o.cached_records)
        l == binarySearchLeftmost(o.cached_records.items, array_len(o.cached_records), v)
        leftmost_idx == l.idx
        r == binarySearchRightmost(
                 SubSeq(o.cached_records.items, leftmost_idx + 1, record_count),
                 record_count - leftmost_idx, v)
        rightmost_idx == (r.idx + leftmost_idx) % (2 ^ IndexWidth)
    IN  IF ~l.found THEN [found |-> FALSE, op |-> o1]
        ELSE [found |-> TRUE,
              op |-> [o1 EXCEPT
                        !.intersect_idx = leftmost_idx,
                        !.number_of_intersections =
                            (rightmost_idx - leftmost_idx + 1) % (2 ^ IndexWidth)]]

\* NewValueHashJoin
NewValueHashJoin ==
    [rhs_rec |-> NoRecord,
     intersect_idx |-> -1,
     cached_records |-> NoArray,
     number_of_intersections |-> 0]

\* the caches a search can meet: records of non-NULL join values in
\* ascending order
SortedCaches ==
    {c \in UNION {[1 .. n -> 1 .. MaxKey] : n \in 0 .. MaxCache} :
        \A k \in 1 .. (Len(c) - 1) : c[k] <= c[k + 1]}

InitSearch ==
    /\ heap = << >>
    /\ last = NoCall
    /\ nops = 0
    /\ pc = [t \in Threads |-> "done"]
    /\ todo = [t \in Threads |-> {}]
    /\ snap = [t \in Threads |-> << >>]
    /\ written = EmptyEnt
    /\ \E c \in SortedCaches :
          op = [NewValueHashJoin EXCEPT
                  !.cached_records =
                      [allocated |-> TRUE,
                       items |-> [k \in 1 .. Len(c) |->
                          Record_AddScalar(Record_New(<<"left", 0, k>>, SI_LongVal(c[k])),
                                           SI_LongVal(c[k]))]]]
    /\ children = << >>
    /\ trace = << >>

\* _set_intersection_idx(op, v) for a probe value v; last keeps v in x and
\* what the call returned in pre
SetIntersectionIdx ==
    /\ nops < MaxOps
    /\ \E v \in JoinValues :
          LET r == set_intersection_idx(op, v)
          IN  /\ op' = r.op
              /\ last' = [op |-> "_set_intersection_idx", i |-> 0, j |-> 0,
                          x |-> v, pre |-> r.found]
    /\ nops' = nops + 1
    /\ UNCHANGED <<heap, pc, todo, snap, written, children, trace>>

NextSearch == SetIntersectionIdx

SpecSearch == InitSearch /\ [][NextSearch]_vars

\* the indices of the cached records whose join value equals v
Matching(cache, v) ==
    {k \in 0 .. (array_len(cache) - 1) :
        ~SIValue_IsNull(v) /\ Record_Get(cache.items[k + 1]) = v}

\* C26: on a cache sorted ascending on the join value,
\* _set_intersection_idx returns true exactly when a cached record's join
\* value equals the probe and the probe is not NULL; it then leaves
\* intersect_idx at the smallest matching index and
\* number_of_intersections at the number of matching records, which are
\* contiguous; otherwise it leaves intersect_idx = -1 and
\* number_of_intersections = 0.
ThmC26 ==
    last.op = "_set_intersection_idx" =>
        LET m == Matching(op.cached_records, last.x)
        IN  /\ last.pre = (m # {})
            /\ IF m # {}
               THEN /\ \A k \in m : op.intersect_idx <= k
                    /\ m = op.intersect_idx ..
                              (op.intersect_idx + op.number_of_intersections - 1)
                    /\ op.number_of_intersections = Cardinality(m)
               ELSE /\ op.intersect_idx = -1
                    /\ op.number_of_intersections = 0

\* the search has found a run of two equal records behind a smaller one
WitC26 ==
    /\ last.op = "_set_intersection_idx"
    /\ last.pre = TRUE
    /\ op.intersect_idx = 1
    /\ op.number_of_intersections = 2
    /\ array_len(op.cached_records) = 3

\* ------------------------------------------------- the join as an operator
\* a child operation: the join values of the records it yields, how many
\* it has yielded since it was last reset, and how often it has been reset
NewChild(side, vals) == [side |-> side, vals |-> vals, pos |-> 0, epoch |-> 0]

\* child->consume(child): the next record, or NULL once the stream is
\* exhausted
consume(c) ==
    IF c.pos < Len(c.vals)
    THEN [rec |-> Record_New(<<c.side, c.epoch, c.pos + 1>>, c.vals[c.pos + 1]),
          child |-> [c EXCEPT !.pos = @ + 1]]
    ELSE [rec |-> NoRecord, child |-> c]

\* the child after the reset the plan propagates to it: it yields its
\* stream again, in fresh records
ResetChild(c) == [c EXCEPT !.pos = 0, !.epoch = @ + 1]

\* OpBase_DeleteRecord(r) in the state st = [op, children, trace]
OpBase_DeleteRecord(st, r) ==
    [st EXCEPT !.trace.deleted = Append(@, r.id)]

RECURSIVE DeleteRecords(_, _)
DeleteRecords(st, records) ==
    IF records = << >> THEN st
    ELSE DeleteRecords(OpBase_DeleteRecord(st, Head(records)), Tail(records))

\* _record_islt
record_islt(l, r) == SIValue_Compare(Record_Get(l), Record_Get(r)).cmp < 0

\* _sort_cached_records: the orders QSORT can leave the array in; the
\* sort is not stable, so records of equal join value come in any order
sort_cached_records(o) ==
    LET items == o.cached_records.items
        n == Len(items)
        perms == {f \in [1 .. n -> 1 .. n] : \A a, b \in 1 .. n : a # b => f[a] # f[b]}
    IN  {[o EXCEPT !.cached_records.items = [k \in 1 .. n |-> items[f[k]]]] :
            f \in {g \in perms :
                     \A a, b \in 1 .. n :
                        a < b => ~record_islt(items[g[b]], items[g[a]])}}

\* the loop of _cache_records
RECURSIVE CacheLoop(_)
CacheLoop(st) ==
    LET c == consume(st.children.left)
        st1 == [st EXCEPT !.children.left = c.child,
                          !.trace.events = Append(@, "left")]
    IN  IF c.rec = NoRecord THEN st1
        ELSE LET v == AR_EXP_Evaluate(c.rec)
             IN  IF SIValue_IsNull(v) THEN CacheLoop(st1)
                 ELSE CacheLoop([st1 EXCEPT !.op.cached_records =
                                    array_append(@, Record_AddScalar(c.rec, v))])

\* mutant: the left child is pulled once
Mut_cache_records_First(st) ==
    LET c == consume(st.children.left)
        st1 == [st EXCEPT !.children.left = c.child,
                          !.op.cached_records = array_new,
                          !.trace.events = Append(@, "left")]
    IN  IF c.rec = NoRecord \/ SIValue_IsNull(AR_EXP_Evaluate(c.rec)) THEN st1
        ELSE [st1 EXCEPT !.op.cached_records =
                 array_append(@, Record_AddScalar(c.rec, AR_EXP_Evaluate(c.rec)))]

\* _cache_records
cache_records(st) == CacheLoop([st EXCEPT !.op.cached_records = array_new])

\* mutant: the cursor is left where it was
Mut_get_intersecting_record_Stay(o) ==
    IF o.intersect_idx = -1 \/ o.number_of_intersections = 0
    THEN [rec |-> NoRecord, op |-> o]
    ELSE [rec |-> o.cached_records.items[o.intersect_idx + 1],
          op |-> [o EXCEPT !.number_of_intersections = @ - 1]]

\* _get_intersecting_record: the record returned and the operator after
get_intersecting_record(o) ==
    IF o.intersect_idx = -1 \/ o.number_of_intersections = 0
    THEN [rec |-> NoRecord, op |-> o]
    ELSE [rec |-> o.cached_records.items[o.intersect_idx + 1],
          op |-> [o EXCEPT !.intersect_idx = @ + 1,
                           !.number_of_intersections = @ - 1]]

\* OpBase_CloneRecord(l), Record_Merge(c, op->rhs_rec), return c: the
\* caller receives the merge of l and the held right record
Emit(st, l) ==
    [st EXCEPT !.trace.out = Append(@, <<l.id, st.op.rhs_rec.id>>),
               !.trace.ret = "record"]

\* the while(true) loop of ValueHashJoinConsume
RECURSIVE PullRight(_)
PullRight(st) ==
    LET c == consume(st.children.right)
        st1 == [st EXCEPT !.children.right = c.child,
                          !.op.rhs_rec = c.rec,
                          !.trace.events = Append(@, "right")]
    IN  IF c.rec = NoRecord
        THEN [st1 EXCEPT !.trace.ret = NULL, !.trace.done = TRUE]
        ELSE LET f == set_intersection_idx(st1.op, AR_EXP_Evaluate(c.rec))
                 st2 == [st1 EXCEPT !.op = f.op]
             IN  IF ~f.found
                 THEN PullRight(OpBase_DeleteRecord(st2, st2.op.rhs_rec))
                 ELSE LET g == get_intersecting_record(st2.op)
                      IN  Emit([st2 EXCEPT !.op = g.op], g.rec)

\* ValueHashJoinConsume once the left side is cached
ConsumeCached(st) ==
    LET g == get_intersecting_record(st.op)
    IN  IF st.op.number_of_intersections > 0 /\ g.rec # NoRecord
        THEN Emit([st EXCEPT !.op = g.op], g.rec)
        ELSE PullRight(IF st.op.rhs_rec # NoRecord
                       THEN OpBase_DeleteRecord(st, st.op.rhs_rec)
                       ELSE st)

\* ValueHashJoinConsume: the states the call can end in
ValueHashJoinConsume(st) ==
    IF st.op.cached_records = NoArray
    THEN LET st1 == cache_records(st)
         IN  {ConsumeCached([st1 EXCEPT !.op = o,
                                        !.trace.events = Append(@, "sort")]) :
                 o \in sort_cached_records(st1.op)}
    ELSE {ConsumeCached(st)}

\* mutant: the held right record stays held
Mut_Reset_KeepRight(st) ==
    LET st1 == [st EXCEPT !.op.intersect_idx = -1,
                          !.op.number_of_intersections = 0]
        st2 == IF st1.op.rhs_rec # NoRecord
               THEN OpBase_DeleteRecord(st1, st1.op.rhs_rec)
               ELSE st1
    IN  IF st2.op.cached_records # NoArray
        THEN [DeleteRecords(st2, st2.op.cached_records.items)
                 EXCEPT !.op.cached_records = NoArray]
        ELSE st2

\* ValueHashJoinReset
ValueHashJoinReset(st) ==
    LET st1 == [st EXCEPT !.op.intersect_idx = -1,
                          !.op.number_of_intersections = 0]
        st2 == IF st1.op.rhs_rec # NoRecord
               THEN [OpBase_DeleteRecord(st1, st1.op.rhs_rec)
                        EXCEPT !.op.rhs_rec = NoRecord]
               ELSE st1
    IN  IF st2.op.cached_records # NoArray
        THEN [DeleteRecords(st2, st2.op.cached_records.items)
                 EXCEPT !.op.cached_records = NoArray]
        ELSE st2

\* ValueHashJoinFree
ValueHashJoinFree(st) ==
    LET st1 == IF st.op.rhs_rec # NoRecord
               THEN [OpBase_DeleteRecord(st, st.op.rhs_rec)
                        EXCEPT !.op.rhs_rec = NoRecord]
               ELSE st
    IN  IF st1.op.cached_records # NoArray
        THEN [DeleteRecords(st1, st1.op.cached_records.items)
                 EXCEPT !.op.cached_records = NoArray]
        ELSE st1

\* the record streams a child can yield
Streams(n) == UNION {[1 .. k -> JoinValues] : k \in 0 .. n}

\* nothing has been emitted, pulled or deleted; from is where each child
\* stood when the operator was created or last reset
NoTrace ==
    [out |-> << >>, events |-> << >>, deleted |-> << >>,
     from |-> [left |-> 0, right |-> 0],
     ret |-> "none", done |-> FALSE, freed |-> FALSE]

InitJoin ==
    /\ heap = << >>
    /\ last = NoCall
    /\ nops = 0
    /\ pc = [t \in Threads |-> "done"]
    /\ todo = [t \in Threads |-> {}]
    /\ snap = [t \in Threads |-> << >>]
    /\ written = EmptyEnt
    /\ op = NewValueHashJoin
    /\ \E l \in Streams(MaxLeft), r \in Streams(MaxRight) :
          children = [left |-> NewChild("left", l), right |-> NewChild("right", r)]
    /\ trace = NoTrace

JoinState == [op |-> op, children |-> children, trace |-> trace]

\* the call named call took the join to the state st
JoinCalled(call, st) ==
    /\ op' = st.op
    /\ children' = st.children
    /\ trace' = st.trace
    /\ last' = [NoCall EXCEPT !.op = call]
    /\ nops' = nops + 1
    /\ UNCHANGED <<heap, pc, todo, snap, written>>

\* one call of ValueHashJoinConsume
Consume ==
    /\ nops < MaxJoinCalls
    /\ ~trace.freed
    /\ \E st \in ValueHashJoinConsume(JoinState) :
          JoinCalled("ValueHashJoinConsume", st)

\* one call of ValueHashJoinReset on the operator alone; what the join
\* emits and pulls is recorded afresh from here
JoinReset ==
    /\ nops < MaxJoinCalls
    /\ ~trace.freed
    /\ JoinCalled("ValueHashJoinReset",
                  [ValueHashJoinReset(JoinState) EXCEPT
                      !.trace.out = << >>, !.trace.events = << >>,
                      !.trace.from = [left |-> children.left.pos,
                                      right |-> children.right.pos],
                      !.trace.ret = "none", !.trace.done = FALSE])

\* a reset propagated through the plan: the children are reset as well
PlanReset ==
    /\ nops < MaxJoinCalls
    /\ ~trace.freed
    /\ JoinCalled("ValueHashJoinReset",
                  [ValueHashJoinReset(JoinState) EXCEPT
                      !.children.left = ResetChild(@),
                      !.children.right = ResetChild(@),
                      !.trace.from = [left |-> 0, right |-> 0],
                      !.trace.out = << >>, !.trace.events = << >>,
                      !.trace.ret = "none", !.trace.done = FALSE])

\* ValueHashJoinFree, the last call on the operator
JoinFree ==
    /\ nops < MaxJoinCalls
    /\ ~trace.freed
    /\ JoinCalled("ValueHashJoinFree",
                  [ValueHashJoinFree(JoinState) EXCEPT !.trace.freed = TRUE])

NextJoin == Consume \/ JoinReset \/ PlanReset \/ JoinFree

SpecJoin == InitJoin /\ [][NextJoin]_vars

\* the merged records the join owes, on the cache and the right stream
\* it has: for each right record in stream order, its matching cached
\* records in ascending index order
RECURSIVE Expected(_, _, _)
Expected(cache, right, k) ==
    IF k > Len(right.vals) THEN << >>
    ELSE LET v == right.vals[k]
             m == Matching(cache, v)
             run == IF m = {} THEN << >>
                    ELSE [n \in 1 .. Cardinality(m) |->
                            <<cache.items[(CHOOSE a \in m : \A b \in m : a <= b) + n].id,
                              <<"right", right.epoch, k>>>>]
         IN  run \o Expected(cache, right, k + 1)

\* the pairs of a left and a right record of equal non-NULL join values,
\* among the records the children yield from where they stood
Pairs ==
    {<<<<"left", children.left.epoch, p[1]>>, <<"right", children.right.epoch, p[2]>>>> :
        p \in {q \in ((trace.from.left + 1) .. Len(children.left.vals))
                        \X ((trace.from.right + 1) .. Len(children.right.vals)) :
                  /\ ~SIValue_IsNull(children.left.vals[q[1]])
                  /\ children.left.vals[q[1]] = children.right.vals[q[2]]}}

\* C27: the calls of ValueHashJoinConsume emit, up to the first NULL, one
\* merged record for each pair of a left and a right record of equal
\* non-NULL join values and no other: the right records in stream order,
\* each with its matching cached records in ascending cache index order;
\* a call returns NULL once the right stream is exhausted.
ThmC27 ==
    IF op.cached_records = NoArray
    THEN trace.freed \/ (trace.out = << >> /\ ~trace.done)
    ELSE LET e == Expected(op.cached_records, children.right, trace.from.right + 1)
             n == Len(trace.out)
         IN  /\ n <= Len(e)
             /\ trace.out = SubSeq(e, 1, n)
             /\ {e[k] : k \in DOMAIN e} = Pairs
             /\ Len(e) = Cardinality(Pairs)
             /\ trace.done <=> (last.op = "ValueHashJoinConsume" /\ trace.ret = NULL)
             /\ trace.done => /\ trace.out = e
                              /\ children.right.pos = Len(children.right.vals)
             /\ (last.op = "ValueHashJoinConsume" /\ trace.ret # NULL) => n > 0

\* the join has emitted two merged records of one right record and
\* then returned NULL
WitC27 ==
    /\ trace.done
    /\ last.op = "ValueHashJoinConsume"
    /\ Len(trace.out) = 2
    /\ trace.out[1][2] = trace.out[2][2]
    /\ trace.out[1][1] # trace.out[2][1]

\* the left records the cache owes: those of non-NULL join value among
\* the records the left child yields from where it stood
Cacheable ==
    {<<"left", children.left.epoch, a>> :
        a \in {b \in (trace.from.left + 1) .. Len(children.left.vals) :
                  ~SIValue_IsNull(children.left.vals[b])}}

\* C28: the first ValueHashJoinConsume after creation or a reset pulls the
\* left child until it returns NULL and sorts the cache before it pulls
\* the right child, and the left child is not pulled again before the
\* next reset; a left record of NULL join value is never cached.
ThmC28 ==
    LET ev == trace.events
        nl == Len(children.left.vals) - trace.from.left + 1
        items == op.cached_records.items
    IN  /\ (op.cached_records = NoArray /\ ~trace.freed) => ev = << >>
        /\ op.cached_records # NoArray =>
              /\ Len(ev) > nl + 1
              /\ \A k \in 1 .. nl : ev[k] = "left"
              /\ ev[nl + 1] = "sort"
              /\ \A k \in (nl + 2) .. Len(ev) : ev[k] = "right"
              /\ children.left.pos = Len(children.left.vals)
              /\ {items[k].id : k \in DOMAIN items} = Cacheable
              /\ Len(items) = Cardinality(Cacheable)
              /\ \A k \in DOMAIN items : ~SIValue_IsNull(Record_Get(items[k]))
              /\ \A a, b \in DOMAIN items :
                    a < b => ~record_islt(items[b], items[a])

\* after a reset the join has pulled the whole left side again before its
\* one pull on the right, and left a record of NULL join value out of the
\* cache
WitC28 ==
    /\ last.op = "ValueHashJoinConsume"
    /\ children.left.epoch = 1
    /\ Len(children.left.vals) = 2
    /\ SIValue_IsNull(children.left.vals[1])
    /\ array_len(op.cached_records) = 1
    /\ Len(trace.events) = 5

\* how often the record of identity id has been deleted
Deletions(t, id) == Cardinality({k \in DOMAIN t.deleted : t.deleted[k] = id})

\* the records the operator holds: the right record and the cached ones
HeldRecords(o) ==
    {o.cached_records.items[k].id : k \in DOMAIN o.cached_records.items}
        \cup (IF o.rhs_rec # NoRecord THEN {o.rhs_rec.id} ELSE {})

\* C29: ValueHashJoinReset leaves the operator as NewValueHashJoin made
\* it (intersect_idx = -1, number_of_intersections = 0, no right record,
\* no cache) with the right record it held and every cached record
\* deleted once; no record is ever deleted twice by ValueHashJoinConsume,
\* ValueHashJoinReset and ValueHashJoinFree; a reset that follows a reset
\* changes nothing.
ThmC29 ==
    [][/\ \A k \in DOMAIN trace'.deleted : Deletions(trace', trace'.deleted[k]) = 1
       /\ last'.op = "ValueHashJoinReset" =>
             /\ op' = NewValueHashJoin
             /\ \A id \in HeldRecords(op) : Deletions(trace', id) = 1
             /\ Len(trace'.deleted) = Len(trace.deleted) + Cardinality(HeldRecords(op))
             /\ last.op = "ValueHashJoinReset" =>
                   op' = op /\ trace'.deleted = trace.deleted]_vars

\* a reset has deleted the right record and the two cached records the
\* operator held
WitC29 ==
    /\ last.op = "ValueHashJoinReset"
    /\ Len(trace.deleted) = 3
    /\ trace.deleted[1][1] = "right"
    /\ op = NewValueHashJoin

====
